---------------------------- MODULE Spec2Model ----------------------------
(***************************************************************************)
(* colog: the formatter glue of src/src/lib.rs (basic_builder,             *)
(* default_builder, init, formatter) together with the CologStyle policy   *)
(* of the `format` module and the env_logger facade that drives them.      *)
(*                                                                         *)
(* Text is a sequence of one-character strings.  A colour escape or reset  *)
(* is one element of zero visible width.                                   *)
(***************************************************************************)
EXTENDS Integers, Sequences, FiniteSets, TLC

VARIABLES
    rustLog,   \* value of the RUST_LOG environment variable ("unset" if absent)
    mainpc,    \* "running" | "panicked": the thread that performs set-up
    lastCall,  \* last set-up entry point called ("none" before any)
    logger,    \* the process-wide logger installed in the log facade
    given,     \* the style value handed to formatter(..)
    cl,        \* the closure returned by formatter(..): it owns the style
    frame,     \* per thread: the call of format in progress
    buf,       \* per thread: the writer (env_logger Formatter buffer) it owns
    stream,    \* the shared output target: chunks in the order they arrived
    ncalls,    \* number of calls started (facade specification only)
    memo       \* a remembered earlier successful call and what it wrote

vars == <<rustLog, mainpc, lastCall, logger, given, cl, frame, buf, stream, ncalls, memo>>

---------------------------------------------------------------------------
(* Bounds *)

MaxMsgLen == 3
MaxMemoMsgLen == 2
MaxTokenWidth == 2
MaxCalls == 2

---------------------------------------------------------------------------
(* Records, levels, characters *)

Levels == {"Error", "Warn", "Info", "Debug", "Trace"}

\* log::Level / log::LevelFilter order: Off < Error < Warn < Info < Debug < Trace
LevelNum == [l \in Levels |->
    CASE l = "Error" -> 1 [] l = "Warn" -> 2 [] l = "Info" -> 3
      [] l = "Debug" -> 4 [] l = "Trace" -> 5]

NL == "\n"
SP == " "
MsgChars == {"a", SP, NL}
MemoChars == {"a", NL}
Reset == "^reset"
Colors == {"Red", "Yellow", "Green", "Blue", "Cyan"}
Esc(c) ==
    CASE c = "Red" -> "^red" [] c = "Yellow" -> "^yellow" [] c = "Green" -> "^green"
      [] c = "Blue" -> "^blue" [] c = "Cyan" -> "^cyan"
EscapeCodes == {Reset} \cup {Esc(c) : c \in Colors}

Messages(chars, n) == UNION {[1..k -> chars] : k \in 0..n}

RECURSIVE Concat(_)
Concat(ss) == IF ss = <<>> THEN <<>> ELSE Head(ss) \o Concat(Tail(ss))

Spaces(n) == [i \in 1..n |-> SP]

\* number of characters a terminal shows for s
VisibleWidth(s) == Cardinality({i \in 1..Len(s) : s[i] \notin EscapeCodes})

\* number of (possibly overlapping) occurrences of pat in s
CountOcc(pat, s) ==
    Cardinality({i \in 1..(Len(s) - Len(pat) + 1) : SubSeq(s, i, i + Len(pat) - 1) = pat})

NewlinesIn(s) == Cardinality({i \in 1..Len(s) : s[i] = NL})

---------------------------------------------------------------------------
(* Style Policy: the CologStyle trait of the `format` module *)

NoStyle == [kind |-> "none", width |-> 0]

DefaultTokens == [l \in Levels |->
    CASE l = "Error" -> <<"E", "R", "R", "O", "R">>
      [] l = "Warn"  -> <<"W", "A", "R", "N", SP>>
      [] l = "Info"  -> <<"I", "N", "F", "O", SP>>
      [] l = "Debug" -> <<"D", "E", "B", "U", "G">>
      [] l = "Trace" -> <<"T", "R", "A", "C", "E">>]

DefaultCologStyle == [kind |-> "default", width |-> Len(DefaultTokens["Error"])]

\* a policy that overrides token_for with tokens of width w
CustomStyle(w) == [kind |-> "custom", width |-> w]

Styles == {DefaultCologStyle} \cup {CustomStyle(w) : w \in 1..MaxTokenWidth}

color_for(level) ==
    CASE level = "Error" -> "Red" [] level = "Warn" -> "Yellow" [] level = "Info" -> "Green"
      [] level = "Debug" -> "Blue" [] level = "Trace" -> "Cyan"

token_for(style, level) ==
    IF style.kind = "default" THEN DefaultTokens[level]
    ELSE [i \in 1..style.width |-> DefaultTokens[level][1]]

\* bracket, colour escape, token, reset, bracket, space: only the token is coloured
prefix_token(style, level) ==
    <<"[", Esc(color_for(level))>> \o token_for(style, level) \o <<Reset, "]", SP>>

\* newline, then as many spaces as the prefix is wide on screen
line_separator_hardcoded(style) == <<NL>> \o Spaces(VisibleWidth(prefix_token(DefaultCologStyle, "Error")))

line_separator(style) == <<NL>> \o Spaces(VisibleWidth(prefix_token(style, "Error")))

Terminator == <<NL>>

\* the message split on newline: at least one line, a trailing newline gives a last empty line
RECURSIVE SplitFrom(_, _, _)
SplitFrom(msg, i, cur) ==
    IF i > Len(msg) THEN <<cur>>
    ELSE IF msg[i] = NL THEN <<cur>> \o SplitFrom(msg, i + 1, <<>>)
    ELSE SplitFrom(msg, i + 1, Append(cur, msg[i]))

\* a split that drops a trailing empty line
Split_lines(msg) ==
    LET ls == SplitFrom(msg, 1, <<>>)
    IN  IF Len(ls) > 1 /\ ls[Len(ls)] = <<>> THEN SubSeq(ls, 1, Len(ls) - 1) ELSE ls

Split(msg) == SplitFrom(msg, 1, <<>>)

\* the writes of one format call, in order
Pieces(style, level, msg) ==
    LET ls == Split(msg)
    IN  <<prefix_token(style, level), ls[1]>>
        \o Concat([i \in 1..(Len(ls) - 1) |-> <<line_separator(style), ls[i + 1]>>])
        \o <<Terminator>>

\* style.format(writer, record) on a writer holding pre, whose fault-th write fails (0: none does)
format(style, pre, level, msg, fault) ==
    LET ps == Pieces(style, level, msg)
    IN  IF fault = 0 \/ fault > Len(ps)
        THEN [result |-> "Ok", buf |-> pre \o Concat(ps)]
        ELSE [result |-> "Err", buf |-> pre \o Concat(SubSeq(ps, 1, fault - 1))]

---------------------------------------------------------------------------
(* lib.rs: formatter, basic_builder, default_builder *)

NoClosure == [fmt |-> NoStyle]

\* a closure that took the default style whatever it was given
formatter_default_only(fmt) == [fmt |-> DefaultCologStyle]

\* formatter(fmt): a `move` closure that owns fmt
formatter(fmt) == [fmt |-> fmt]

\* a closure that reports success whatever format returned
ClosureResultSwallowed(r) == "Ok"

\* the closure's value is the value of fmt.format(buf, rec)
ClosureResult(r) == r

\* a closure that writes to the shared target instead of the writer it was handed
ClosureWriterShared(t) == <<"stream", t>>

\* the closure hands its own first argument, the caller's writer, to format
ClosureWriter(t) == <<"buf", t>>

\* a policy whose token width changes from call to call
ClosureStyleToggled(s) == [kind |-> "custom", width |-> IF s.width = 1 THEN 2 ELSE 1]

\* the closure is `Fn`: fmt is only borrowed immutably during a call
ClosureStyleAfter(s) == s

\* env_logger::Builder: the format callable and the default filter directive, if set
NewBuilder == [format |-> NoClosure, hasFilter |-> FALSE, filter |-> 0]

basic_builder == [NewBuilder EXCEPT !.format = formatter(DefaultCologStyle)]

\* RUST_LOG values: a bare level name sets the default directive
RustLogValues == {"unset", "debug"}

ParsedLevel(s) == IF s = "debug" THEN "Debug" ELSE "Error"

parse_filters(b, s) == [b EXCEPT !.hasFilter = TRUE, !.filter = LevelNum[ParsedLevel(s)]]

\* a default builder that lets Debug through
default_builder_debug(rl) ==
    LET b == [basic_builder EXCEPT !.hasFilter = TRUE, !.filter = LevelNum["Debug"]]
    IN  IF rl # "unset" THEN parse_filters(b, rl) ELSE b

default_builder(rl) ==
    LET b == [basic_builder EXCEPT !.hasFilter = TRUE, !.filter = LevelNum["Info"]]
    IN  IF rl # "unset" THEN parse_filters(b, rl) ELSE b

NoLogger == [by |-> "none", filter |-> 0]

\* a builder with no directive filters at Error
BuiltFilter(b) == IF b.hasFilter THEN b.filter ELSE LevelNum["Error"]

---------------------------------------------------------------------------
(* State *)

Threads == {1, 2}
UnitThreads == {1}

\* messages the facade specification logs: one line, two lines
LogMessages == {<<"a">>, <<"a", NL, "a">>}

IdleFrame == [pc |-> "idle", caller |-> "none", via |-> "none", level |-> "Error",
              msg |-> <<>>, k |-> 0, attempts |-> 0, raw |-> "none", result |-> "none",
              base |-> 0, id |-> 0]

NoMemo == [set |-> FALSE, level |-> "Error", msg |-> <<>>, out |-> <<>>]

\* what the call of thread t has put on its writer so far
Written(t) == SubSeq(buf[t], frame[t].base + 1, Len(buf[t]))

\* the policy the call of thread t runs
StyleOf(fr) == IF fr.via = "formatter" THEN cl.fmt ELSE given

\* the facade specification: nothing is set up yet
InitLog ==
    /\ rustLog \in RustLogValues
    /\ mainpc = "running"
    /\ lastCall = "none"
    /\ logger = NoLogger
    /\ given = NoStyle
    /\ cl = NoClosure
    /\ frame = [t \in Threads |-> IdleFrame]
    /\ buf = [t \in Threads |-> <<>>]
    /\ stream = <<>>
    /\ ncalls = 0
    /\ memo = NoMemo

\* the concurrency specification: the state after UserCustomInit
InitConc ==
    /\ rustLog = "unset"
    /\ mainpc = "running"
    /\ lastCall = "custom"
    /\ logger = [by |-> "custom", filter |-> LevelNum["Trace"]]
    /\ given \in {CustomStyle(w) : w \in 1..MaxTokenWidth}
    /\ cl = formatter(given)
    /\ frame = [t \in Threads |-> IdleFrame]
    /\ buf = [t \in Threads |-> <<>>]
    /\ stream = <<>>
    /\ ncalls = 0
    /\ memo = NoMemo

\* the formatter specification: a closure has been made of some style
Init ==
    /\ rustLog = "unset"
    /\ mainpc = "running"
    /\ lastCall = "none"
    /\ logger = NoLogger
    /\ given \in Styles
    /\ cl = formatter(given)
    /\ frame = [t \in Threads |-> IdleFrame]
    /\ buf = [t \in Threads |-> <<>>]
    /\ stream = <<>>
    /\ ncalls = 0
    /\ memo = NoMemo

---------------------------------------------------------------------------
(* Set-up: lib.rs init and the documented manual set-ups *)

\* env_logger Builder::init: try_init().expect(..): panics when a logger is already set.
\* Set-up calls are made before the first log call.
BuilderInit(b, by, style) ==
    /\ mainpc = "running"
    /\ ncalls = 0
    /\ lastCall' = by
    /\ IF logger.by # "none"
       THEN /\ mainpc' = "panicked"
            /\ UNCHANGED <<logger, given, cl>>
       ELSE /\ logger' = [by |-> by, filter |-> BuiltFilter(b)]
            /\ given' = style
            /\ cl' = b.format
            /\ UNCHANGED mainpc
    /\ UNCHANGED <<rustLog, frame, buf, stream, ncalls, memo>>

\* colog::init()
init == BuilderInit(default_builder(rustLog), "init", DefaultCologStyle)

\* colog::basic_builder().init()
UserBasicInit == BuilderInit(basic_builder, "basic", DefaultCologStyle)

\* Builder::new().format(colog::formatter(CustomStyle)).filter_level(Trace).init()
UserCustomInit ==
    \E w \in 1..MaxTokenWidth :
        BuilderInit([NewBuilder EXCEPT !.format = formatter(CustomStyle(w)),
                                       !.hasFilter = TRUE, !.filter = LevelNum["Trace"]],
                    "custom", CustomStyle(w))

---------------------------------------------------------------------------
(* Calls *)

\* the record's level passes the installed filter
Enabled(level) == LevelNum[level] <= logger.filter

StartFrame(caller, via, level, msg, base, id) ==
    [IdleFrame EXCEPT !.pc = "format", !.caller = caller, !.via = via, !.level = level,
                      !.msg = msg, !.base = base, !.id = id]

\* log!(level, msg) on thread t: the facade filters, then calls the registered closure
\* on the thread's own Formatter
Log(t, levels) ==
    \E level \in levels, msg \in LogMessages :
        /\ mainpc = "running"
        /\ logger.by # "none"
        /\ frame[t].pc = "idle"
        /\ ncalls < MaxCalls
        /\ ncalls' = ncalls + 1
        /\ frame' = [frame EXCEPT ![t] =
                        IF Enabled(level)
                        THEN StartFrame("facade", "formatter", level, msg, 0, ncalls + 1)
                        ELSE [IdleFrame EXCEPT !.pc = "dropped", !.caller = "facade",
                                               !.level = level, !.msg = msg, !.id = ncalls + 1]]
        /\ UNCHANGED <<rustLog, mainpc, lastCall, logger, given, cl, buf, stream, memo>>

\* a filtered-out log call returns to its caller
LogReturn(t) ==
    /\ frame[t].pc = "dropped"
    /\ frame' = [frame EXCEPT ![t] = IdleFrame]
    /\ UNCHANGED <<rustLog, mainpc, lastCall, logger, given, cl, buf, stream, ncalls, memo>>

\* user code calls the closure, or style.format itself, on a writer of its own holding pre
UserCall(t, vias, msgs, pres, counted) ==
    \E via \in vias, level \in Levels, msg \in msgs, pre \in pres :
        /\ mainpc = "running"
        /\ given # NoStyle
        /\ frame[t].pc = "idle"
        /\ counted => ncalls < MaxCalls
        /\ ncalls' = IF counted THEN ncalls + 1 ELSE ncalls
        /\ frame' = [frame EXCEPT ![t] = StartFrame("user", via, level, msg, Len(pre), ncalls + 1)]
        /\ buf' = [buf EXCEPT ![t] = pre]
        /\ UNCHANGED <<rustLog, mainpc, lastCall, logger, given, cl, stream, memo>>

\* the writer the call of thread t writes to
Target(t) == IF frame[t].via = "formatter" THEN ClosureWriter(t) ELSE <<"buf", t>>

\* what the caller gets back when format returns raw
Seen(fr, raw) == IF fr.via = "formatter" THEN ClosureResult(raw) ELSE raw

\* the next write of format succeeds; after the last one format returns Ok
WriteOk(t) ==
    LET fr == frame[t]
        ps == Pieces(StyleOf(fr), fr.level, fr.msg)
        last == fr.k + 1 = Len(ps)
        piece == ps[fr.k + 1]
    IN  /\ mainpc = "running"
        /\ fr.pc = "format"
        /\ fr.k < Len(ps)
        /\ IF Target(t)[1] = "stream"
           THEN /\ stream' = Append(stream, [id |-> fr.id, level |-> fr.level, msg |-> fr.msg,
                                             bytes |-> piece])
                /\ UNCHANGED buf
           ELSE /\ buf' = [buf EXCEPT ![Target(t)[2]] = @ \o piece]
                /\ UNCHANGED stream
        /\ frame' = [frame EXCEPT ![t] =
                        [fr EXCEPT !.k = @ + 1, !.attempts = @ + 1,
                                   !.pc = IF last THEN "returned" ELSE "format",
                                   !.raw = IF last THEN "Ok" ELSE "none",
                                   !.result = IF last THEN Seen(fr, "Ok") ELSE "none"]]
        /\ cl' = IF last /\ fr.via = "formatter" THEN [fmt |-> ClosureStyleAfter(cl.fmt)] ELSE cl
        /\ UNCHANGED <<rustLog, mainpc, lastCall, logger, given, ncalls, memo>>

\* the next write of format fails: format returns the error at once
WriteFail(t) ==
    LET fr == frame[t]
        ps == Pieces(StyleOf(fr), fr.level, fr.msg)
    IN  /\ mainpc = "running"
        /\ fr.pc = "format"
        /\ fr.k < Len(ps)
        /\ frame' = [frame EXCEPT ![t] =
                        [fr EXCEPT !.attempts = @ + 1, !.pc = "returned", !.raw = "Err",
                                   !.result = Seen(fr, "Err")]]
        /\ cl' = IF fr.via = "formatter" THEN [fmt |-> ClosureStyleAfter(cl.fmt)] ELSE cl
        /\ UNCHANGED <<rustLog, mainpc, lastCall, logger, given, buf, stream, ncalls, memo>>

\* env_logger Logger::log after the closure returned: print the buffer to the target
\* in one piece if the closure succeeded, then clear the buffer
FacadeFinish(t) ==
    LET fr == frame[t]
    IN  /\ fr.pc = "returned"
        /\ fr.caller = "facade"
        /\ stream' = IF fr.result = "Ok"
                     THEN Append(stream, [id |-> fr.id, level |-> fr.level, msg |-> fr.msg,
                                          bytes |-> buf[t]])
                     ELSE stream
        /\ buf' = [buf EXCEPT ![t] = <<>>]
        /\ frame' = [frame EXCEPT ![t] = IdleFrame]
        /\ UNCHANGED <<rustLog, mainpc, lastCall, logger, given, cl, ncalls, memo>>

\* user code takes the result and drops its writer; it may remember a successful call
UserReturn(t, remember) ==
    LET fr == frame[t]
    IN  /\ fr.pc = "returned"
        /\ fr.caller = "user"
        /\ \/ UNCHANGED memo
           \/ /\ remember
              /\ fr.result = "Ok"
              /\ memo' = [set |-> TRUE, level |-> fr.level, msg |-> fr.msg, out |-> Written(t)]
        /\ buf' = [buf EXCEPT ![t] = <<>>]
        /\ frame' = [frame EXCEPT ![t] = IdleFrame]
        /\ UNCHANGED <<rustLog, mainpc, lastCall, logger, given, cl, stream, ncalls>>

---------------------------------------------------------------------------
(* Specifications *)

\* Spec: user code driving the closure and format on one thread, on writers that
\* may already hold text
HarnessCall(t) == UserCall(t, {"formatter", "direct"}, Messages(MsgChars, MaxMsgLen), {<<>>, <<"x">>}, FALSE)

HarnessReturn(t) == UserReturn(t, FALSE)

Next ==
    \E t \in UnitThreads :
        \/ HarnessCall(t)
        \/ WriteOk(t)
        \/ WriteFail(t)
        \/ HarnessReturn(t)

Spec == Init /\ [][Next]_vars

\* SpecMemo: the same on empty writers, remembering an earlier call
MemoCall(t) == UserCall(t, {"formatter", "direct"}, Messages(MemoChars, MaxMemoMsgLen), {<<>>}, FALSE)

MemoReturn(t) == UserReturn(t, TRUE)

NextMemo ==
    \E t \in UnitThreads :
        \/ MemoCall(t)
        \/ WriteOk(t)
        \/ WriteFail(t)
        \/ MemoReturn(t)

SpecMemo == Init /\ [][NextMemo]_vars

\* SpecLog: set-up through the facade, then one thread logging at every level and
\* calling format itself
DirectCall(t) == UserCall(t, {"direct"}, LogMessages, {<<>>}, TRUE)

DirectReturn(t) == UserReturn(t, FALSE)

NextLog ==
    \/ init
    \/ UserBasicInit
    \/ UserCustomInit
    \/ \E t \in UnitThreads :
        \/ Log(t, Levels)
        \/ LogReturn(t)
        \/ DirectCall(t)
        \/ WriteOk(t)
        \/ WriteFail(t)
        \/ FacadeFinish(t)
        \/ DirectReturn(t)

SpecLog == InitLog /\ [][NextLog]_vars

\* SpecConc: two threads logging through the installed closure at the same time
NextConc ==
    \E t \in Threads :
        \/ Log(t, {"Info"})
        \/ WriteOk(t)
        \/ WriteFail(t)
        \/ FacadeFinish(t)

SpecConc == InitConc /\ [][NextConc]_vars

---------------------------------------------------------------------------
(* Properties *)

\* msg with every newline replaced by sep
RECURSIVE ReplaceNL(_, _)
ReplaceNL(msg, sep) ==
    IF msg = <<>> THEN <<>>
    ELSE (IF Head(msg) = NL THEN sep ELSE <<Head(msg)>>) \o ReplaceNL(Tail(msg), sep)

\* prefix, l1, then line_separator() and li for each further line, then the terminator
Expected(style, level, msg) ==
    prefix_token(style, level) \o ReplaceNL(msg, line_separator(style)) \o Terminator

\* the text a user's writer held before the call
PreOf(base) == [i \in 1..base |-> "x"]

ReturnedOk(t) == frame[t].pc = "returned" /\ frame[t].caller = "user" /\ frame[t].result = "Ok"

IsPrefix(a, b) == Len(a) <= Len(b) /\ SubSeq(b, 1, Len(a)) = a

\* C1: a call of format, directly or through the closure returned by formatter, that
\* returns Ok has appended to the writer exactly prefix, l1, (line_separator(), li) for
\* i = 2..k and the terminator, in that order, leaving what the writer held before; a
\* one-line message gives prefix + message + terminator.
C1_FormatWritesExactly ==
    \A t \in Threads :
        ReturnedOk(t) =>
            LET fr == frame[t]
            IN  /\ buf[t] = PreOf(fr.base) \o Expected(given, fr.level, fr.msg)
                /\ NewlinesIn(fr.msg) = 0 =>
                      Written(t) = prefix_token(given, fr.level) \o fr.msg \o Terminator

C1_Witness ==
    \E t \in Threads :
        /\ ReturnedOk(t)
        /\ frame[t].via = "formatter"
        /\ frame[t].msg = <<"a", NL, "a">>
        /\ given = CustomStyle(MaxTokenWidth)

\* C2: for a message with N newlines the output of a call that returns Ok holds exactly
\* N occurrences of line_separator() and N + 1 newlines: the one that belongs to no
\* separator is the terminator, and it is the last character written.
C2_SeparatorCount ==
    \A t \in Threads :
        ReturnedOk(t) =>
            LET w == Written(t)
                n == NewlinesIn(frame[t].msg)
            IN  /\ CountOcc(line_separator(given), w) = n
                /\ NewlinesIn(w) = n + 1
                /\ Len(w) > 0
                /\ w[Len(w)] = NL

C2_Witness ==
    \E t \in Threads :
        /\ ReturnedOk(t)
        /\ frame[t].via = "formatter"
        /\ NewlinesIn(frame[t].msg) = 2
        /\ CountOcc(line_separator(given), Written(t)) = 2

\* C3 (as claimed): a second init(), made when init() has already installed the logger,
\* returns and does not panic.
C3_SecondInitReturns == ~(lastCall = "init" /\ logger.by = "init" /\ mainpc = "panicked")

\* C4: after init() with RUST_LOG unset the filter is Info: a facade record is dropped
\* before format iff its level is Debug or Trace, nothing is written for a dropped
\* record, and only Error, Warn and Info records reach the output; format called
\* directly writes the full output for each of the five levels under every filter.
C4_DefaultFilterInfo ==
    /\ (logger.by = "init" /\ rustLog = "unset") =>
          /\ logger.filter = LevelNum["Info"]
          /\ \A t \in Threads :
                frame[t].caller = "facade" =>
                   /\ (frame[t].pc = "dropped") <=> (frame[t].level \in {"Debug", "Trace"})
                   /\ (frame[t].pc = "dropped") => (buf[t] = <<>>)
          /\ \A i \in 1..Len(stream) : stream[i].level \in {"Error", "Warn", "Info"}
    /\ \A t \in Threads :
          (ReturnedOk(t) /\ frame[t].via = "direct") =>
              Written(t) = Expected(given, frame[t].level, frame[t].msg)

C4_Witness ==
    /\ logger.by = "init"
    /\ rustLog = "unset"
    /\ \E t \in Threads : frame[t].pc = "dropped" /\ frame[t].level = "Debug"
    /\ Len(stream) = 1
    /\ stream[1].level = "Info"

\* C5: when a write of a format call fails, the call returns Err to its caller (also
\* through the closure), the failed write is the last write attempted (no retry, no
\* later write), and the writer holds exactly what it held plus the pieces written
\* before the failure.
C5_WriteErrorPropagates ==
    \A t \in Threads :
        (frame[t].pc = "returned" /\ frame[t].raw = "Err") =>
            LET fr == frame[t]
                ps == Pieces(given, fr.level, fr.msg)
            IN  /\ fr.result = "Err"
                /\ fr.k < Len(ps)
                /\ fr.attempts = fr.k + 1
                /\ buf[t] = PreOf(fr.base) \o Concat(SubSeq(ps, 1, fr.k))

C5_Witness ==
    \E t \in Threads :
        /\ frame[t].pc = "returned"
        /\ frame[t].via = "formatter"
        /\ frame[t].result = "Err"
        /\ frame[t].k = 1
        /\ Written(t) = prefix_token(given, frame[t].level)

\* the chunks of call id in the shared stream, in order, as one text
RECURSIVE BytesOf(_, _)
BytesOf(id, i) ==
    IF i > Len(stream) THEN <<>>
    ELSE (IF stream[i].id = id THEN stream[i].bytes ELSE <<>>) \o BytesOf(id, i + 1)

\* C6: with two threads calling the installed closure at the same time, the chunks of
\* one call lie next to each other in the shared stream and read, in order, as a
\* prefix of that call's output (all of it once the facade has printed it), and the
\* style the closure owns is the one it was given.
C6_NoInterleaving ==
    /\ \A i, j \in 1..Len(stream) :
          (i < j /\ stream[i].id = stream[j].id) =>
              \A m \in i..j : stream[m].id = stream[i].id
    /\ \A i \in 1..Len(stream) :
          IsPrefix(BytesOf(stream[i].id, 1), Expected(given, stream[i].level, stream[i].msg))
    /\ \A i \in 1..Len(stream) :
          (\A t \in Threads : frame[t].id # stream[i].id) =>
              BytesOf(stream[i].id, 1) = Expected(given, stream[i].level, stream[i].msg)
    /\ cl = formatter(given)

C6_Witness ==
    /\ Len(stream) = 1
    /\ stream[1].id = 2
    /\ stream[1].msg = <<"a", NL, "a">>
    /\ \E t \in Threads : frame[t].id = 1 /\ frame[t].pc = "format" /\ frame[t].k = 2

\* C7: for a policy whose tokens are W wide, a message's second line starts, after the
\* newline, with exactly as many spaces as the prefix is wide on screen (W plus the
\* punctuation), whatever W is.
C7_IndentMatchesPrefix ==
    \A t \in Threads :
        (ReturnedOk(t) /\ NewlinesIn(frame[t].msg) > 0) =>
            LET fr == frame[t]
                w == Written(t)
                ls == Split(fr.msg)
                pre == prefix_token(given, fr.level)
                wd == VisibleWidth(pre)
                p == Len(pre) + Len(ls[1]) + 1
            IN  /\ VisibleWidth(token_for(given, fr.level)) = given.width
                /\ wd > given.width
                /\ w[p] = NL
                /\ SubSeq(w, p + 1, p + wd) = Spaces(wd)
                /\ SubSeq(w, p + wd + 1, p + wd + Len(ls[2])) = ls[2]
                /\ w[p + wd + Len(ls[2]) + 1] = NL
                /\ VisibleWidth(Tail(line_separator(given))) = wd

C7_Witness ==
    \E t \in Threads :
        /\ ReturnedOk(t)
        /\ given = CustomStyle(MaxTokenWidth)
        /\ frame[t].msg = <<"a", NL, "a">>
        /\ frame[t].level = "Warn"

\* C8: a call that returns Ok for the record of a remembered earlier call has written
\* the same text as that call did.
C8_Deterministic ==
    \A t \in Threads :
        (ReturnedOk(t) /\ memo.set /\ memo.level = frame[t].level /\ memo.msg = frame[t].msg) =>
            Written(t) = memo.out

C8_Witness ==
    \E t \in Threads :
        /\ ReturnedOk(t)
        /\ frame[t].via = "formatter"
        /\ memo.set
        /\ memo.level = frame[t].level
        /\ memo.msg = frame[t].msg
        /\ memo.msg = <<"a", NL>>
        /\ given = CustomStyle(1)

\* C9: a call through the closure returns what style.format returns on the same
\* writer, record and write fault, and leaves the same text on the writer.
C9_ClosureDelegates ==
    \A t \in Threads :
        (frame[t].pc = "returned" /\ frame[t].via = "formatter") =>
            LET fr == frame[t]
                fault == IF fr.raw = "Err" THEN fr.k + 1 ELSE 0
                direct == format(given, PreOf(fr.base), fr.level, fr.msg, fault)
            IN  /\ fr.result = direct.result
                /\ buf[t] = direct.buf
                /\ stream = <<>>

C9_Witness ==
    \E t \in Threads :
        /\ frame[t].pc = "returned"
        /\ frame[t].via = "formatter"
        /\ frame[t].base > 0
        /\ frame[t].result = "Err"
        /\ frame[t].k = 2
        /\ given = CustomStyle(1)

\* C10: under the default policy an empty message gives prefix then terminator, and a
\* message ending in a newline gives the output of the message without that newline
\* with one line_separator() put before the terminator.
C10_EdgeCases ==
    \A t \in Threads :
        (ReturnedOk(t) /\ given = DefaultCologStyle) =>
            LET fr == frame[t]
                n == Len(fr.msg)
                body == SubSeq(fr.msg, 1, n - 1)
            IN  /\ fr.msg = <<>> =>
                      Written(t) = prefix_token(given, fr.level) \o Terminator
                /\ (n > 0 /\ fr.msg[n] = NL) =>
                      Written(t) = prefix_token(given, fr.level)
                                   \o ReplaceNL(body, line_separator(given))
                                   \o line_separator(given) \o Terminator

C10_Witness ==
    \E t \in Threads :
        /\ ReturnedOk(t)
        /\ given = DefaultCologStyle
        /\ frame[t].msg = <<"a", NL>>

=============================================================================
